---- MODULE Spec2Model ----
(***************************************************************************)
(* A model of decoupler's ULM pipeline: the network preprocessing of       *)
(* src/decoupler/pre.py (rename_net, filt_min_n, get_net_mat, match,       *)
(* extract) and the inference of src/decoupler/method_ulm.py (nb_ulm, ulm, *)
(* run_ulm).                                                               *)
(*                                                                         *)
(* Conventions.  A label (sample, feature, regulator) is a natural number: *)
(* its rank in the sort order of the label strings.  A weight or a data    *)
(* value is an integer.  A pandas DataFrame is a record                    *)
(* [columns |-> sequence of column names, rows |-> sequence of rows], each *)
(* row a sequence of cells aligned with columns.  A dense matrix is a      *)
(* record [nrow, ncol, a] with a a sequence of rows.                       *)
(***************************************************************************)
EXTENDS Integers, Sequences, FiniteSets, TLC

VARIABLES
    pc,      \* position of the call under study: "start", "done", "run"
    heap,    \* rename_net: the DataFrame objects that exist, by reference
    net,     \* the network argument (a reference, a DataFrame or a matrix)
    net0,    \* rename_net: the caller's table as it was before the call
    source,  \* rename_net / run_ulm: regulator column name
    target,  \* rename_net / run_ulm: target column name
    weight,  \* rename_net / run_ulm: weight column name, or None
    mat,     \* the data argument (dense samples x features, or its CSR form)
    c,       \* feature labels of mat
    r,       \* match: target labels of net
    min_n,   \* filt_min_n / run_ulm: minimum number of targets
    ret,     \* what the call returned or raised
    es,      \* nb_ulm: the estimate matrix being filled
    row,     \* nb_ulm: the dense scratch rows, by buffer
    upc,     \* nb_ulm: position of each per-sample unit of work
    jcol     \* nb_ulm: the regulator column each unit is at

vars == <<pc, heap, net, net0, source, target, weight, mat, c, r, min_n, ret,
          es, row, upc, jcol>>

\* A variable that the specification at hand does not use.
Unused == <<>>

-----------------------------------------------------------------------------
(* Bounds of the model. *)

MaxCols == 3        \* columns of a network table given to rename_net
MaxRows == 1        \* records of a network table given to rename_net
MaxRecords == 3     \* records of a canonical long-format network
MaxMinN == 3        \* largest min_n tried
MaxFeatures == 3    \* feature labels of the data matrix (length of c)
MaxSamples == 2     \* samples (rows) of the data matrix

-----------------------------------------------------------------------------
(* Values. *)

\* Python's None, as the weight column name.
None == "<None>"

\* The float NaN that pandas puts in a cell with no value: outside every
\* label and weight of the model.
NaN == -1000

\* The scalar 1.0 of `net['weight'] = 1.0`, in weight units.
OneWeight == 1

CanonicalColumns == <<"source", "target", "weight">>

-----------------------------------------------------------------------------
(* Sequences. *)

Range(s) == {s[i] : i \in 1..Len(s)}

Has(s, x) == \E i \in 1..Len(s) : s[i] = x

\* Position of the first occurrence of x in s.
IndexOf(s, x) == CHOOSE i \in 1..Len(s) : s[i] = x /\ \A k \in 1..(i - 1) : s[k] # x

\* Position of the last occurrence of x in s.
LastIndexOf(s, x) == CHOOSE i \in 1..Len(s) : s[i] = x /\ \A k \in (i + 1)..Len(s) : s[k] # x

HasDuplicates(s) == \E i, k \in 1..Len(s) : i # k /\ s[i] = s[k]

\* Sequences over S of length lo..hi.
SeqsOf(S, lo, hi) == UNION {[1..n -> S] : n \in lo..hi}

\* Sequences over S without repetition, of length lo..hi.
DistinctSeqsOf(S, lo, hi) == {s \in SeqsOf(S, lo, hi) : ~HasDuplicates(s)}

-----------------------------------------------------------------------------
(* pandas DataFrame operations used by rename_net. *)

Column(df, name) == [i \in 1..Len(df.rows) |-> df.rows[i][IndexOf(df.columns, name)]]

\* df[name] = val with a scalar val: overwrite the column, or append it.
df_setitem(df, name, val) ==
    IF Has(df.columns, name)
    THEN [df EXCEPT !.rows = [i \in 1..Len(df.rows) |->
                                 [df.rows[i] EXCEPT ![IndexOf(df.columns, name)] = val]]]
    ELSE [columns |-> Append(df.columns, name),
          rows    |-> [i \in 1..Len(df.rows) |-> Append(df.rows[i], val)]]

\* The dict literal {keys[1]: vals[1], ...}: a repeated key keeps its last value.
DictGet(keys, vals, x) == IF Has(keys, x) THEN vals[LastIndexOf(keys, x)] ELSE x

\* df.rename(columns=dict): a new frame, every label looked up in the dict.
df_rename(df, keys, vals) ==
    [df EXCEPT !.columns = [k \in 1..Len(df.columns) |-> DictGet(keys, vals, df.columns[k])]]

\* df.reindex(columns=cols) on a frame with unique labels: a new frame with
\* exactly cols, a label the frame lacks becoming a NaN column.
df_reindex(df, cols) ==
    [columns |-> cols,
     rows    |-> [i \in 1..Len(df.rows) |->
                    [k \in 1..Len(cols) |->
                        IF Has(df.columns, cols[k])
                        THEN df.rows[i][IndexOf(df.columns, cols[k])]
                        ELSE NaN]]]

\* A mutant of df_copy: the same object under the same reference (no copy).
df_alias(h, ref) == [heap |-> h, ref |-> ref]

\* df.copy(): a new object with the same contents.
df_copy(h, ref) == [heap |-> Append(h, h[ref]), ref |-> Len(h) + 1]

Raised(h, err) == [heap |-> h, status |-> err, ref |-> 0]

\* rename_net(net, source, target, weight) on the object heap h; net is the
\* caller's reference.  The result is the heap after the call, with "ok"
\* and the reference of the returned frame, or the exception raised.
rename_net(h, ref, src, tgt, wgt) ==
    IF ~Has(h[ref].columns, src) THEN Raised(h, "AssertionError")
    ELSE IF ~Has(h[ref].columns, tgt) THEN Raised(h, "AssertionError")
    ELSE IF wgt # None /\ ~Has(h[ref].columns, wgt) THEN Raised(h, "AssertionError")
    ELSE
      LET cp  == IF wgt = None THEN df_copy(h, ref) ELSE [heap |-> h, ref |-> ref]
          h1  == IF wgt = None
                 THEN [cp.heap EXCEPT ![cp.ref] = df_setitem(@, "weight", OneWeight)]
                 ELSE cp.heap
          w   == IF wgt = None THEN "weight" ELSE wgt
          ren == df_rename(h1[cp.ref], <<src, tgt, w>>, CanonicalColumns)
          h2  == Append(h1, ren)
      IN  IF HasDuplicates(ren.columns)
          THEN Raised(h2, "ValueError")   \* reindex on an axis with duplicate labels
          ELSE [heap   |-> Append(h2, df_reindex(ren, CanonicalColumns)),
                status |-> "ok",
                ref    |-> Len(h2) + 1]

-----------------------------------------------------------------------------
(* Specification of rename_net: a caller holds one table and calls.        *)

\* Column names a network table may carry, and the names a caller binds.
ColumnNames == {"source", "target", "weight", "tf", "gene"}
SourceNames == {"source", "tf"}
TargetNames == {"target", "gene"}
WeightNames == {"weight", None}

CellValues == {2, 3}

Tables ==
    UNION {[columns : {cols}, rows : SeqsOf([1..Len(cols) -> CellValues], 1, MaxRows)]
             : cols \in DistinctSeqsOf(ColumnNames, 1, MaxCols)}

InitRename ==
    /\ pc = "start"
    /\ heap \in {<<t>> : t \in Tables}
    /\ net = 1
    /\ net0 = heap[1]
    /\ source \in SourceNames
    /\ target \in TargetNames
    /\ weight \in WeightNames
    /\ ret = Unused
    /\ mat = Unused /\ c = Unused /\ r = Unused /\ min_n = Unused
    /\ es = Unused /\ row = Unused /\ upc = Unused /\ jcol = Unused

CallRenameNet ==
    /\ pc = "start"
    /\ LET res == rename_net(heap, net, source, target, weight)
       IN  /\ heap' = res.heap
           /\ ret' = [status |-> res.status, ref |-> res.ref]
    /\ pc' = "done"
    /\ UNCHANGED <<net, net0, source, target, weight, mat, c, r, min_n, es, row, upc, jcol>>

NextRename == CallRenameNet

SpecRename == InitRename /\ [][NextRename]_vars

-----------------------------------------------------------------------------
(* Claims about rename_net (under SpecRename).                             *)

\* The table rename_net returned.
Returned == heap[ret.ref]

BoundColumnsExist == Has(net0.columns, source) /\ Has(net0.columns, target)

\* Every column of the input named "source" or "target" is one of the two
\* columns bound as regulator and target.
NoUnboundCanonicalColumn ==
    \A k \in 1..Len(net0.columns) :
        net0.columns[k] \in {"source", "target"} => net0.columns[k] \in {source, target}

CanonicalWithUnitWeight ==
    /\ ret.status = "ok"
    /\ Returned.columns = CanonicalColumns
    /\ Len(Returned.rows) = Len(net0.rows)
    /\ \A i \in 1..Len(Returned.rows) : Returned.rows[i][3] = OneWeight

\* Without the regulator or the target column rename_net raises the
\* assertion error and returns no table.
RenameNetAssertsColumns ==
    (pc = "done" /\ ~BoundColumnsExist) => (ret.status = "AssertionError" /\ ret.ref = 0)

-----------------------------------------------------------------------------
(* numpy helpers used by filt_min_n and get_net_mat.                       *)

\* a[msk] / df[msk]: the entries of s whose mask entry is TRUE, in order.
RECURSIVE BoolIndex(_, _)
BoolIndex(s, msk) ==
    IF Len(s) = 0 THEN <<>>
    ELSE IF msk[1] THEN <<s[1]>> \o BoolIndex(Tail(s), Tail(msk))
         ELSE BoolIndex(Tail(s), Tail(msk))

\* np.isin(a, b): elementwise membership of a's entries in b (a set here).
np_isin(a, b) == [i \in 1..Len(a) |-> a[i] \in b]

Min(S) == CHOOSE x \in S : \A y \in S : x <= y

\* The elements of a finite set of integers in ascending order.
RECURSIVE Sorted(_)
Sorted(S) == IF S = {} THEN <<>> ELSE <<Min(S)>> \o Sorted(S \ {Min(S)})

\* np.unique(a, return_counts=True): the sorted distinct values of a and
\* how many times each occurs.
np_unique_counts(a) ==
    LET u == Sorted(Range(a))
    IN  [values |-> u,
         counts |-> [k \in 1..Len(u) |-> Cardinality({i \in 1..Len(a) : a[i] = u[k]})]]

\* df[msk] on a DataFrame: the rows selected by the mask.
df_mask(df, msk) == [df EXCEPT !.rows = BoolIndex(df.rows, msk)]

\* A mutant of CountsAtLeast: "more than min_n", as the source's comment words it.
CountsMoreThan(count, m) == count > m

\* counts >= min_n
CountsAtLeast(count, m) == count >= m

\* filt_min_n(c, net, min_n); c is given as the set of its labels.
filt_min_n(cc, df, m) ==
    LET msk    == np_isin(Column(df, "target"), cc)
        uc     == np_unique_counts(Column(df_mask(df, msk), "source"))
        kept   == {uc.values[k] : k \in {k \in 1..Len(uc.values) : CountsAtLeast(uc.counts[k], m)}}
        msk2   == np_isin(Column(df, "source"), kept)
    IN  df_mask(df, msk2)

-----------------------------------------------------------------------------
(* Specification of filt_min_n.                                            *)

Regulators == {1, 2}
Targets == {1, 2}
Weights == {1, 2}

\* Canonical long-format networks: rows (source, target, weight).
Records == {<<s, t, w>> : s \in Regulators, t \in Targets, w \in Weights}

Networks(lo, hi) == [columns : {CanonicalColumns}, rows : SeqsOf(Records, lo, hi)]

InitFilt ==
    /\ pc = "start"
    /\ net \in Networks(0, MaxRecords)
    /\ c \in {Sorted(S) : S \in SUBSET Targets}
    /\ min_n \in 0..MaxMinN
    /\ ret = Unused
    /\ heap = Unused /\ net0 = Unused /\ source = Unused /\ target = Unused
    /\ weight = Unused /\ mat = Unused /\ r = Unused
    /\ es = Unused /\ row = Unused /\ upc = Unused /\ jcol = Unused

CallFiltMinN ==
    /\ pc = "start"
    /\ ret' = filt_min_n(Range(c), net, min_n)
    /\ pc' = "done"
    /\ UNCHANGED <<heap, net, net0, source, target, weight, mat, c, r, min_n,
                   es, row, upc, jcol>>

NextFilt == CallFiltMinN

SpecFilt == InitFilt /\ [][NextFilt]_vars

-----------------------------------------------------------------------------
(* Claims about filt_min_n (under SpecFilt).                               *)

\* Number of records of regulator s whose target is one of the labels c.
ResolvableTargets(s) ==
    Cardinality({i \in 1..Len(net.rows) : net.rows[i][1] = s /\ net.rows[i][2] \in Range(c)})

\* The records, in record order, whose regulator has at least n resolvable targets.
RecordsOfRegulatorsWith(n) ==
    SelectSeq(net.rows, LAMBDA rec : ResolvableTargets(rec[1]) >= n)

-----------------------------------------------------------------------------
(* get_net_mat: the long-format network as a (target x source) matrix.     *)

\* The (target, source) pair of every record, in record order.
PivotKeys(df) == [i \in 1..Len(df.rows) |-> <<df.rows[i][2], df.rows[i][1]>>]

\* The pivoted frame; `last` says which record of a pair gives its cell.
PivotFrame(df, last) ==
    LET keys == PivotKeys(df)
        idx  == Sorted(Range(Column(df, "target")))
        cols == Sorted(Range(Column(df, "source")))
        at(key) == IF last THEN LastIndexOf(keys, key) ELSE IndexOf(keys, key)
    IN  [status  |-> "ok",
         index   |-> idx,
         columns |-> cols,
         values  |-> [nrow |-> Len(idx), ncol |-> Len(cols),
                      a |-> [i \in 1..Len(idx) |-> [k \in 1..Len(cols) |->
                               IF Has(keys, <<idx[i], cols[k]>>)
                               THEN df.rows[at(<<idx[i], cols[k]>>)][3]
                               ELSE NaN]]]]

\* A mutant of pivot: duplicate (target, source) pairs are accepted and the
\* last record's weight is kept.
pivot_last(df) == PivotFrame(df, TRUE)

\* net.pivot(columns='source', index='target', values='weight'): raises on a
\* duplicate (index, columns) pair; otherwise sorted targets x sorted
\* sources, NaN where no record gives the pair.
pivot(df) ==
    IF HasDuplicates(PivotKeys(df))
    THEN [status |-> "ValueError"]   \* Index contains duplicate entries, cannot reshape
    ELSE PivotFrame(df, FALSE)

\* X[np.isnan(X)] = 0
FillNaN(m) == [m EXCEPT !.a = [i \in 1..m.nrow |-> [k \in 1..m.ncol |->
                                  IF m.a[i][k] = NaN THEN 0 ELSE m.a[i][k]]]]

get_net_mat(df) ==
    LET X == pivot(df)
    IN  IF X.status # "ok" THEN X
        ELSE [status |-> "ok", sources |-> X.columns, targets |-> X.index,
              X |-> FillNaN(X.values)]

InitMat ==
    /\ pc = "start"
    /\ net \in Networks(1, MaxRecords)
    /\ ret = Unused
    /\ heap = Unused /\ net0 = Unused /\ source = Unused /\ target = Unused
    /\ weight = Unused /\ mat = Unused /\ c = Unused /\ r = Unused /\ min_n = Unused
    /\ es = Unused /\ row = Unused /\ upc = Unused /\ jcol = Unused

CallGetNetMat ==
    /\ pc = "start"
    /\ ret' = get_net_mat(net)
    /\ pc' = "done"
    /\ UNCHANGED <<heap, net, net0, source, target, weight, mat, c, r, min_n,
                   es, row, upc, jcol>>

NextMat == CallGetNetMat

SpecMat == InitMat /\ [][NextMat]_vars

-----------------------------------------------------------------------------
(* Claims about get_net_mat (under SpecMat).                               *)

\* The records of the network that give the pair (target t, regulator s).
RecordsOfPair(t, s) == {i \in 1..Len(net.rows) : net.rows[i][2] = t /\ net.rows[i][1] = s}

Max(S) == CHOOSE x \in S : \A y \in S : x >= y

HasDuplicatePair == \E t \in Targets, s \in Regulators : Cardinality(RecordsOfPair(t, s)) > 1

\* The matrix cell of (t, s) holds w.
CellHolds(t, s, w) ==
    /\ Has(ret.targets, t) /\ Has(ret.sources, s)
    /\ ret.X.a[IndexOf(ret.targets, t)][IndexOf(ret.sources, s)] = w

\* get_net_mat returned a matrix; every pair with a record holds the weight of its last record, every pair
\* of a listed target and a listed regulator with no record holds 0.
LastRecordWins ==
    /\ ret.status = "ok"
    /\ \A t \in Targets, s \in Regulators :
          IF RecordsOfPair(t, s) # {}
          THEN CellHolds(t, s, net.rows[Max(RecordsOfPair(t, s))][3])
          ELSE (Has(ret.targets, t) /\ Has(ret.sources, s)) => CellHolds(t, s, 0)

-----------------------------------------------------------------------------
(* match: the network matrix re-indexed by the feature labels of mat.      *)

zeros(n, m) == [nrow |-> n, ncol |-> m, a |-> [i \in 1..n |-> [k \in 1..m |-> 0]]]

\* The inner loop `for j in range(r.shape[0]): if c[i] == r[j]: ...; break`:
\* the first j with r[j] = ci, searched from position `from`; 0 when none.
RECURSIVE FindTarget(_, _, _)
FindTarget(ci, rr, from) ==
    IF from > Len(rr) THEN 0
    ELSE IF ci = rr[from] THEN from
    ELSE FindTarget(ci, rr, from + 1)

\* A mutant of InnerLoop: the search starts one position late.
InnerLoopFromSecond(ci, rr) == FindTarget(ci, rr, 2)

InnerLoop(ci, rr) == FindTarget(ci, rr, 1)

\* The outer loop `for i in range(c.shape[0])`, from row i on.
RECURSIVE MatchLoop(_, _, _, _, _)
MatchLoop(regX, i, cc, rr, netm) ==
    IF i > Len(cc) THEN regX
    ELSE LET j == InnerLoop(cc[i], rr)
         IN  MatchLoop(IF j = 0 THEN regX ELSE [regX EXCEPT !.a[i] = netm.a[j]],
                       i + 1, cc, rr, netm)

\* match(mat, c, r, net); mat is not used.
match(m, cc, rr, netm) == MatchLoop(zeros(Len(cc), netm.ncol), 1, cc, rr, netm)

FeatureLabels == {1, 2, 3}
MatrixWeights == {1, 2}
FsetCounts == {1, 2}

Matrices(n, m, V) == [nrow : {n}, ncol : {m}, a : [1..n -> [1..m -> V]]]

InitMatch ==
    /\ pc = "start"
    /\ c \in SeqsOf(FeatureLabels, 0, MaxFeatures)
    /\ r \in {Sorted(S) : S \in SUBSET FeatureLabels}
    /\ net \in UNION {Matrices(Len(r), m, MatrixWeights) : m \in FsetCounts}
    /\ mat = Unused
    /\ ret = Unused
    /\ heap = Unused /\ net0 = Unused /\ source = Unused /\ target = Unused
    /\ weight = Unused /\ min_n = Unused
    /\ es = Unused /\ row = Unused /\ upc = Unused /\ jcol = Unused

CallMatch ==
    /\ pc = "start"
    /\ ret' = match(mat, c, r, net)
    /\ pc' = "done"
    /\ UNCHANGED <<heap, net, net0, source, target, weight, mat, c, r, min_n,
                   es, row, upc, jcol>>

NextMatch == CallMatch

SpecMatch == InitMatch /\ [][NextMatch]_vars

-----------------------------------------------------------------------------
(* Claims about match (under SpecMatch).                                   *)

\* C3: the matrix produced by match has len(c) rows and the network's
\* regulator columns; row i is the network row of the target labelled c[i]
\* when there is one and all zeros otherwise.
C3_MatchAlignsRows ==
    pc = "done" =>
        /\ ret.nrow = Len(c) /\ Len(ret.a) = Len(c)
        /\ ret.ncol = net.ncol
        /\ \A i \in 1..Len(c) :
              IF \E j \in 1..Len(r) : r[j] = c[i]
              THEN \E j \in 1..Len(r) : r[j] = c[i] /\ ret.a[i] = net.a[j]
              ELSE ret.a[i] = [k \in 1..net.ncol |-> 0]

\* The case of C3: a feature matched at another position than its own, a
\* feature with no target, and a target that is no feature.
C3_Witness ==
    /\ pc = "done"
    /\ \E i \in 1..Len(c), j \in 1..Len(r) : i # j /\ c[i] = r[j] /\ ret.a[i] = net.a[j]
    /\ \E i \in 1..Len(c) : c[i] \notin Range(r)
    /\ \E j \in 1..Len(r) : r[j] \notin Range(c)

-----------------------------------------------------------------------------
(* The sparse data matrix.  A CSR matrix is [shape, data, indptr, indices] *)
(* with numpy's 0-based offsets: row i (1-based here) owns the entries     *)
(* data[indptr[i]+1 .. indptr[i+1]], whose columns are indices[..] + 1.    *)

\* The positions of the nonzero cells of a dense row, ascending.
NonzeroColumns(rw) == Sorted({k \in 1..Len(rw) : rw[k] # 0})

RECURSIVE CsrFrom(_, _, _)
CsrFrom(m, i, acc) ==
    IF i > m.nrow THEN acc
    ELSE LET nz == NonzeroColumns(m.a[i])
         IN  CsrFrom(m, i + 1,
                     [acc EXCEPT !.data    = @ \o [p \in 1..Len(nz) |-> m.a[i][nz[p]]],
                                 !.indices = @ \o [p \in 1..Len(nz) |-> nz[p] - 1],
                                 !.indptr  = Append(@, @[Len(@)] + Len(nz))])

\* csr_matrix(m) of a dense matrix m.
csr_matrix(m) ==
    CsrFrom(m, 1, [shape |-> <<m.nrow, m.ncol>>, data |-> <<>>, indices |-> <<>>,
                   indptr |-> <<0>>])

-----------------------------------------------------------------------------
(* nb_ulm: the numeric kernel.                                             *)
(*                                                                         *)
(* Floats are modelled by what decides the claims.  A float is NaN or a    *)
(* number; the number x.num / sqrt(x.den2) * sqrt(x.df / ...) is kept as   *)
(* the integers that determine it.  Division and square root follow IEEE   *)
(* 754 as in the compiled loop: 0/0 and the square root of a negative      *)
(* number are NaN, and NaN propagates; nothing is raised.                  *)

FloatNaN == [nan |-> TRUE, num |-> 0, den2 |-> 0, df |-> 0]

\* The float 0.0.
FloatZero == [nan |-> FALSE, num |-> 0, den2 |-> 1, df |-> 0]

RECURSIVE Sum(_)
Sum(s) == IF Len(s) = 0 THEN 0 ELSE s[1] + Sum(Tail(s))

\* np.cov(x, y, bias=1).flat, each term times len(x)^2 (an integer; the
\* factor cancels in r): the variance of x, the covariance, the variance of y.
np_cov(x, y) ==
    LET n == Len(x)
    IN  [ssxm  |-> n * Sum([k \in 1..n |-> x[k] * x[k]]) - Sum(x) * Sum(x),
         ssxym |-> n * Sum([k \in 1..n |-> x[k] * y[k]]) - Sum(x) * Sum(y),
         ssym  |-> n * Sum([k \in 1..n |-> y[k] * y[k]]) - Sum(y) * Sum(y)]

\* r = ssxym / np.sqrt(ssxm * ssym): with a zero variance the covariance is
\* zero too, and 0/0 is NaN.
PearsonR(cv) ==
    IF cv.ssxm * cv.ssym = 0 THEN FloatNaN
    ELSE [nan |-> FALSE, num |-> cv.ssxym, den2 |-> cv.ssxm * cv.ssym, df |-> 0]

\* r * np.sqrt(df / ((1.0 - r + 1.0e-20)*(1.0 + r + 1.0e-20))): for |r| <= 1
\* the divisor is positive, so the root is of a negative number iff df < 0;
\* the product is 0.0 when r or df is 0.
TValue(rv, df) ==
    IF rv.nan THEN FloatNaN
    ELSE IF df < 0 THEN FloatNaN
    ELSE IF rv.num = 0 \/ df = 0 THEN FloatZero
    ELSE [rv EXCEPT !.df = df]

\* The dense row of sample i: zeros, then row[indices[s:e]] = data[s:e].
DenseRow(n_features, data, indptr, indices, i) ==
    [k \in 1..n_features |->
        LET ps == {p \in (indptr[i] + 1)..indptr[i + 1] : indices[p] + 1 = k}
        IN  IF ps = {} THEN 0 ELSE data[Max(ps)]]

\* x = net[:,j]
NetColumn(netm, j) == [k \in 1..netm.nrow |-> netm.a[k][j]]

\* The body of the inner loop, lines 37-46: the value stored at es[i,j].
Estimate(netm, j, rowv) == TValue(PearsonR(np_cov(NetColumn(netm, j), rowv)), netm.nrow - 2)

\* nb_ulm with the samples processed one after the other.
nb_ulm(n_samples, n_features, data, indptr, indices, netm) ==
    [nrow |-> n_samples, ncol |-> netm.ncol,
     a |-> [i \in 1..n_samples |-> [j \in 1..netm.ncol |->
              Estimate(netm, j, DenseRow(n_features, data, indptr, indices, i))]]]

\* scipy.stats.stats._ttest_finish(df, es, 'two-sided')[1]: the p-value of
\* each cell, NaN for a NaN statistic or a df that is not positive.
ttest_finish(df, t) ==
    [t EXCEPT !.a = [i \in 1..t.nrow |-> [j \in 1..t.ncol |->
                        [nan |-> t.a[i][j].nan \/ df <= 0, t |-> t.a[i][j]]]]]

\* ulm(mat, net): no check of df; nothing is raised.
ulm(m, netm) ==
    LET df     == netm.nrow - 2
        est    == nb_ulm(m.shape[1], m.shape[2], m.data, m.indptr, m.indices, netm)
    IN  [status |-> "ok", es |-> est, pvals |-> ttest_finish(df, est)]

-----------------------------------------------------------------------------
(* Specification of ulm: one call on a data matrix and an aligned weight   *)
(* matrix with as many rows as the data matrix has features.               *)

DataValues == {0, 1}
KernelWeights == {-1, 1}

InitUlm ==
    /\ pc = "start"
    /\ \E nf \in 1..MaxFeatures :
          /\ mat \in {csr_matrix(d) :
                        d \in UNION {Matrices(ns, nf, DataValues) : ns \in 1..MaxSamples}}
          /\ net \in UNION {Matrices(nf, m, KernelWeights) : m \in FsetCounts}
    /\ ret = Unused
    /\ heap = Unused /\ net0 = Unused /\ source = Unused /\ target = Unused
    /\ weight = Unused /\ c = Unused /\ r = Unused /\ min_n = Unused
    /\ es = Unused /\ row = Unused /\ upc = Unused /\ jcol = Unused

CallUlm ==
    /\ pc = "start"
    /\ ret' = ulm(mat, net)
    /\ pc' = "done"
    /\ UNCHANGED <<heap, net, net0, source, target, weight, mat, c, r, min_n,
                   es, row, upc, jcol>>

NextUlm == CallUlm

SpecUlm == InitUlm /\ [][NextUlm]_vars

-----------------------------------------------------------------------------
(* Claims about ulm (under SpecUlm).                                       *)

\* C6: when the aligned weight matrix has fewer than 3 rows (df < 1), ulm
\* surfaces a ConfigurationError instead of returning matrices.
C6_SmallDfRaises ==
    (pc = "done" /\ net.nrow < 3) => ret.status = "ConfigurationError"

SampleRow(i) == DenseRow(mat.shape[2], mat.data, mat.indptr, mat.indices, i)

ZeroVariance(i, j) ==
    LET cv == np_cov(NetColumn(net, j), SampleRow(i))
    IN  cv.ssym = 0 \/ cv.ssxm = 0

\* C10: when a sample's dense vector or a regulator's weight column has
\* zero variance, the stored estimate of that cell is a well-defined
\* number, not NaN (stated for df >= 1, so that df plays no part).
C10_ZeroVarianceStabilized ==
    (pc = "done" /\ net.nrow >= 3) =>
        \A i \in 1..mat.shape[1], j \in 1..net.ncol :
            ZeroVariance(i, j) => ~ret.es.a[i][j].nan

-----------------------------------------------------------------------------
(* Specification of the parallel loop of nb_ulm: `for i in nb.prange(      *)
(* n_samples)` runs one unit of work per sample, the units' statements     *)
(* interleaved in any order.  es is allocated before the loop (line 25);   *)
(* each unit allocates its dense row inside the loop (line 30).            *)

Units == 1..mat.shape[1]

\* A mutant of Scratch: one dense row allocated outside the loop and shared.
SharedScratch(i) == 1

\* The buffer that `row` names in the unit of sample i: its own.
Scratch(i) == i

\* Dense sample rows of the loop's inputs, with 0, 1 and 2 stored entries.
ParRows == {<<0, 0, 0>>, <<1, 0, 0>>, <<0, 1, 1>>}
ParFsets == {1, 2}

ParData == {[nrow |-> MaxSamples, ncol |-> 3, a |-> a] : a \in [1..MaxSamples -> ParRows]}

\* Weight columns of the loop's inputs: two with variance, one constant.
ParColumns == {<<1, 1, -1>>, <<1, -1, 1>>, <<1, 1, 1>>}

ParNets ==
    {[nrow |-> 3, ncol |-> Cardinality(ParFsets),
      a |-> [k \in 1..3 |-> [j \in ParFsets |-> cols[j][k]]]] : cols \in [ParFsets -> ParColumns]}

InitPar ==
    /\ pc = "run"
    /\ mat \in {csr_matrix(d) : d \in ParData}
    /\ net \in ParNets
    /\ es = [nrow |-> mat.shape[1], ncol |-> net.ncol,
             a |-> [i \in 1..mat.shape[1] |-> [j \in 1..net.ncol |-> FloatZero]]]
    /\ row = [i \in 1..mat.shape[1] |-> <<>>]
    /\ upc = [i \in 1..mat.shape[1] |-> "alloc"]
    /\ jcol = [i \in 1..mat.shape[1] |-> 1]
    /\ ret = Unused
    /\ heap = Unused /\ net0 = Unused /\ source = Unused /\ target = Unused
    /\ weight = Unused /\ c = Unused /\ r = Unused /\ min_n = Unused

\* row = np.zeros(n_features)
UnitAlloc(i) ==
    /\ pc = "run" /\ upc[i] = "alloc"
    /\ row' = [row EXCEPT ![Scratch(i)] = [k \in 1..mat.shape[2] |-> 0]]
    /\ upc' = [upc EXCEPT ![i] = "fill"]
    /\ UNCHANGED <<pc, heap, net, net0, source, target, weight, mat, c, r, min_n,
                   ret, es, jcol>>

\* s, e = indptr[i], indptr[i+1]; row[indices[s:e]] = data[s:e]
UnitFill(i) ==
    /\ pc = "run" /\ upc[i] = "fill"
    /\ row' = [row EXCEPT ![Scratch(i)] =
                 [k \in 1..mat.shape[2] |->
                    LET ps == {p \in (mat.indptr[i] + 1)..mat.indptr[i + 1] :
                                 mat.indices[p] + 1 = k}
                    IN  IF ps = {} THEN @[k] ELSE mat.data[Max(ps)]]]
    /\ upc' = [upc EXCEPT ![i] = "col"]
    /\ UNCHANGED <<pc, heap, net, net0, source, target, weight, mat, c, r, min_n,
                   ret, es, jcol>>

\* One pass of `for j in range(n_fsets)`: es[i,j] = ...
UnitColumn(i) ==
    /\ pc = "run" /\ upc[i] = "col" /\ jcol[i] <= net.ncol
    /\ es' = [es EXCEPT !.a[i][jcol[i]] = Estimate(net, jcol[i], row[Scratch(i)])]
    /\ jcol' = [jcol EXCEPT ![i] = @ + 1]
    /\ UNCHANGED <<pc, heap, net, net0, source, target, weight, mat, c, r, min_n,
                   ret, row, upc>>

\* The inner loop of unit i is over.
UnitEnd(i) ==
    /\ pc = "run" /\ upc[i] = "col" /\ jcol[i] > net.ncol
    /\ upc' = [upc EXCEPT ![i] = "done"]
    /\ UNCHANGED <<pc, heap, net, net0, source, target, weight, mat, c, r, min_n,
                   ret, es, row, jcol>>

\* return es, once every unit is over.
ReturnEs ==
    /\ pc = "run" /\ \A i \in Units : upc[i] = "done"
    /\ ret' = es
    /\ pc' = "done"
    /\ UNCHANGED <<heap, net, net0, source, target, weight, mat, c, r, min_n,
                   es, row, upc, jcol>>

NextPar ==
    \/ \E i \in Units : UnitAlloc(i)
    \/ \E i \in Units : UnitFill(i)
    \/ \E i \in Units : UnitColumn(i)
    \/ \E i \in Units : UnitEnd(i)
    \/ ReturnEs

SpecPar == InitPar /\ [][NextPar]_vars

-----------------------------------------------------------------------------
(* Claims about the parallel loop (under SpecPar).                         *)

\* Unit i has stored the estimate of column j.
Stored(i, j) == upc[i] = "done" \/ (upc[i] = "col" /\ j < jcol[i])

\* What processing the samples one after the other produces.
Sequential == nb_ulm(mat.shape[1], mat.shape[2], mat.data, mat.indptr, mat.indices, net)

\* Row i of es holds what unit i has stored so far and nothing else; the
\* dense row unit i computes from is the row of sample i.
RowsDisjoint ==
    /\ \A i \in Units, j \in 1..net.ncol :
          es.a[i][j] = IF Stored(i, j) THEN Sequential.a[i][j] ELSE FloatZero
    /\ \A i \in Units : upc[i] = "col" => row[i] = SampleRow(i)

\* A step changes row i of es, or the dense row of unit i, only if it is a
\* step of unit i; the weight matrix and the sparse data are never written.
OwnWritesOnly ==
    /\ \A i \in Units :
          (es'.a[i] # es.a[i] \/ row'[i] # row[i]) => (upc'[i] # upc[i] \/ jcol'[i] # jcol[i])
    /\ net' = net /\ mat' = mat

\* C8: for every interleaving of the per-sample units, unit i writes only
\* row i of es, no cell is written by two units, each dense scratch row is
\* used by its unit alone, net and the sparse data are never written, and
\* the matrix returned is the one sequential processing produces.
C8_ParallelLoopRowDisjoint ==
    /\ [](RowsDisjoint /\ (pc = "done" => ret = Sequential))
    /\ [][OwnWritesOnly]_vars

\* The case of C8: the loop has returned for two samples with different
\* dense rows, whose estimates differ and are nonzero numbers.
C8_Witness ==
    /\ pc = "done"
    /\ SampleRow(1) # SampleRow(2)
    /\ \E j \in 1..net.ncol :
          /\ ret.a[1][j] # ret.a[2][j]
          /\ ret.a[1][j] \notin {FloatNaN, FloatZero}
          /\ ret.a[2][j] \notin {FloatNaN, FloatZero}

-----------------------------------------------------------------------------
(* extract and run_ulm.                                                    *)

\* np.argsort(c): the positions of c in ascending order of label (labels
\* of a data matrix are distinct).
np_argsort(cc) == [k \in 1..Len(cc) |-> IndexOf(cc, Sorted(Range(cc))[k])]

\* extract(mat, use_raw, dtype) of a list [matrix, samples, features] or a
\* DataFrame: the CSR matrix with its columns sorted by feature label, the
\* sample labels and the sorted feature labels.
extract(x) ==
    IF x.type \notin {"list", "DataFrame"} THEN [status |-> "ValueError"]
    ELSE LET msk == np_argsort(x.c)
         IN  [status |-> "ok",
              m |-> csr_matrix([x.m EXCEPT !.a = [i \in 1..x.m.nrow |->
                                                    [k \in 1..x.m.ncol |-> x.m.a[i][msk[k]]]]]),
              r |-> x.r,
              c |-> [k \in 1..Len(x.c) |-> x.c[msk[k]]]]

\* The signatures of the functions run_ulm calls: the parameter names and
\* how many of them (the first ones) have no default.
SigExtract   == [params |-> <<"mat", "use_raw", "dtype">>, required |-> 1]
SigRenameNet == [params |-> <<"net", "source", "target", "weight">>, required |-> 1]
SigFiltMinN  == [params |-> <<"c", "net", "min_n">>, required |-> 2]
SigGetNetMat == [params |-> <<"net">>, required |-> 1]
SigMatch     == [params |-> <<"mat", "c", "r", "net">>, required |-> 4]
SigUlm       == [params |-> <<"mat", "net">>, required |-> 2]

\* Python's argument binding: whether a call with npos positional arguments
\* and the keyword arguments kws binds to the signature (else TypeError).
CallBinds(sig, npos, kws) ==
    /\ npos <= Len(sig.params)
    /\ \A k \in kws : \E q \in (npos + 1)..Len(sig.params) : sig.params[q] = k
    /\ \A q \in 1..sig.required : q <= npos \/ sig.params[q] \in kws

\* run_ulm raising err in its call of `at`; kernel: whether nb_ulm was entered.
RunRaised(err, at) == [status |-> err, at |-> at, kernel |-> FALSE]

\* run_ulm(mat, net, source, target, weight, min_n), statement by statement.
\* Line 117 passes the keyword verbose, which extract does not take; line
\* 125 passes three positional arguments (c, targets, net) to the four
\* parameters (mat, c, r, net) of match.
run_ulm(x, df, src, tgt, wgt, mn) ==
    IF ~CallBinds(SigExtract, 1, {"use_raw", "verbose"}) THEN RunRaised("TypeError", "extract")
    ELSE LET e == extract(x) IN
    IF e.status # "ok" THEN RunRaised(e.status, "extract")
    ELSE IF ~CallBinds(SigRenameNet, 1, {"source", "target", "weight"})
         THEN RunRaised("TypeError", "rename_net")
    ELSE LET rn == rename_net(<<df>>, 1, src, tgt, wgt) IN
    IF rn.status # "ok" THEN RunRaised(rn.status, "rename_net")
    ELSE IF ~CallBinds(SigFiltMinN, 2, {"min_n"}) THEN RunRaised("TypeError", "filt_min_n")
    ELSE IF ~CallBinds(SigGetNetMat, 1, {}) THEN RunRaised("TypeError", "get_net_mat")
    ELSE LET g == get_net_mat(filt_min_n(Range(e.c), rn.heap[rn.ref], mn)) IN
    IF g.status # "ok" THEN RunRaised(g.status, "get_net_mat")
    ELSE IF ~CallBinds(SigMatch, 3, {}) THEN RunRaised("TypeError", "match")
    ELSE IF ~CallBinds(SigUlm, 2, {}) THEN RunRaised("TypeError", "ulm")
    ELSE LET u == ulm(e.m, match(e.c, g.targets, g.X, Unused))
         IN  [status   |-> "ok", at |-> "return", kernel |-> TRUE,
              estimate |-> [index |-> e.r, columns |-> g.sources, values |-> u.es],
              pvals    |-> [index |-> e.r, columns |-> g.sources, values |-> u.pvals]]

-----------------------------------------------------------------------------
(* Specification of run_ulm: one call on a list or DataFrame input and a   *)
(* long-format network table.                                              *)

\* Feature labels of the input, in the caller's order.
RunFeatures == {<<1, 2>>, <<2, 1>>}

\* Rows of the input matrix.
RunRows == {<<0, 1>>, <<1, 0>>}

RunInputs ==
    {[type |-> ty, m |-> [nrow |-> MaxSamples, ncol |-> 2, a |-> a],
      r |-> [i \in 1..MaxSamples |-> i], c |-> cc] :
        ty \in {"list", "DataFrame"},
        a \in [1..MaxSamples -> RunRows],
        cc \in RunFeatures}

InitRun ==
    /\ pc = "start"
    /\ mat \in RunInputs
    /\ net \in Networks(1, MaxRecords)
    /\ source \in SourceNames
    /\ target \in TargetNames
    /\ weight \in WeightNames
    /\ min_n \in 0..MaxMinN
    /\ ret = Unused
    /\ heap = Unused /\ net0 = Unused /\ c = Unused /\ r = Unused
    /\ es = Unused /\ row = Unused /\ upc = Unused /\ jcol = Unused

CallRunUlm ==
    /\ pc = "start"
    /\ ret' = run_ulm(mat, net, source, target, weight, min_n)
    /\ pc' = "done"
    /\ UNCHANGED <<heap, net, net0, source, target, weight, mat, c, r, min_n,
                   es, row, upc, jcol>>

NextRun == CallRunUlm

SpecRun == InitRun /\ [][NextRun]_vars

-----------------------------------------------------------------------------
(* Claims about run_ulm (under SpecRun).                                   *)

\* The network table has the bound columns and no (target, regulator) pair twice.
ValidInputs ==
    /\ Has(net.columns, source) /\ Has(net.columns, target)
    /\ weight # None => Has(net.columns, weight)
    /\ ~HasDuplicates(PivotKeys(net))

\* The regulators that pass the min_n filter.
RetainedRegulators ==
    Sorted({s \in Regulators :
              Cardinality({i \in 1..Len(net.rows) :
                             net.rows[i][1] = s /\ net.rows[i][2] \in Range(mat.c)}) >= min_n
              /\ \E i \in 1..Len(net.rows) : net.rows[i][1] = s /\ net.rows[i][2] \in Range(mat.c)})

\* run_ulm returned both matrices with the samples as rows and the
\* regulators regs as columns.
ReturnsMatrices(regs) ==
    /\ ret.status = "ok"
    /\ \A res \in {ret.estimate, ret.pvals} :
          /\ res.index = mat.r /\ res.columns = regs
          /\ res.values.nrow = Len(mat.r) /\ res.values.ncol = Len(regs)

\* C1: for all valid inputs run_ulm completes and the estimate and p-value
\* matrices have shape (n_samples, n_regulators_after_filter), indexed by
\* the sample labels and the retained regulator labels.
C1_RunUlmShapes ==
    (pc = "done" /\ ValidInputs) => ReturnsMatrices(RetainedRegulators)

\* C5: when the regulator or target column name is not a column of the
\* network table, run_ulm surfaces rename_net's failure (the assertion
\* error on the column name) before the kernel starts.
C5_SchemaErrorSurfaced ==
    (pc = "done" /\ ~(Has(net.columns, source) /\ Has(net.columns, target))) =>
        /\ ret.status = "AssertionError" /\ ret.at = "rename_net"
        /\ ~ret.kernel

\* C7: when every regulator is removed by the min_n filter, the pipeline
\* does not fail and yields estimate and p-value matrices with n_samples
\* rows and no regulator column.
C7_EmptyResult ==
    (pc = "done" /\ ValidInputs /\ RetainedRegulators = <<>>) => ReturnsMatrices(<<>>)

====
